---- MODULE Spec2Model ----
(***************************************************************************)
(* State-machine model of the message-queue resilience layer:              *)
(*   - the retrying sender of src/src/mq/send.ts (createGenericSender and  *)
(*     the GenericSender class it wraps),                                   *)
(*   - the health-checked receiver of src/unnamed/part_002                 *)
(*     (createGenericReceiver),                                            *)
(*   - the channel session of setupChannel (src/src/test/consoleProxy.ts,  *)
(*     lines 71-120).                                                      *)
(*                                                                         *)
(* Granularity.  The program runs on one JavaScript event loop.  A step of *)
(* the model is one macrotask: a public call, a timer tick, or the         *)
(* completion of a broker operation (connect, declare), together with all  *)
(* code that runs from it up to the next wait on the broker.  An `await`   *)
(* of an already settled promise only yields to the microtask queue and is *)
(* part of the same step.  The waits on the broker are the only places     *)
(* where other steps interleave.                                           *)
(*                                                                         *)
(* Messages are numbered 1..MaxMsgs in the order in which send is called.  *)
(* A pipe is represented by the state of the session it owns: every        *)
(* successful setupChannel opens a session of its own, so a pipe that is   *)
(* created is always a new one.                                            *)
(***************************************************************************)
EXTENDS Integers, Sequences, FiniteSets, TLC

\* Number of send calls the user makes.
MaxMsgs == 3
\* Number of connection attempts of the receiver.
MaxAttempts == 3
\* Number of broker faults the environment injects on the receiver side.
MaxFaults == 2
\* Number of messages the broker delivers to the receiver.
MaxDeliveries == 2

\* types.MAX_OUTSTANDING_MESSAGES (src/unnamed/part_003, line 4).  The program
\* sets 100; the model scales the capacity down as one of its bounds.  The code
\* only compares the queue length with it (isQueueFull).
MAX_OUTSTANDING_MESSAGES == 1

Msgs == 1..MaxMsgs
Attempts == 1..MaxAttempts

VARIABLES
    \* ---- configuration, fixed at construction
    isDurable,        \* target.options?.durable === true
    targetKind,       \* "queue" (createQueueSender) or "exchange"
    brokerUrl,        \* "" (missing) or "amqp"
    \* ---- createGenericSender closure
    outputQueue,      \* sequence of messages
    retryTimerId,     \* 0 = null, 1 = interval handle
    sender,           \* GenericSender.sender: "null", or the state of the
                      \* cached pipe's session: "open", "failed", "closed"
    \* ---- control state of the asynchronous calls
    inflight,         \* per message: the delivery attempt waiting on the broker
    nextMsg,          \* the message of the next send call
    result,           \* per message: how its send call ended
    closed,           \* close() has been called
    \* ---- broker side
    declPending,      \* message whose attempt created the cached pipe, while
                      \* the reply to its un-awaited declaration is outstanding
    broker,           \* messages handed to sendToQueue/publish, in order
    \* ---- observation
    intervals,        \* setInterval handles not yet cleared
    buffered,         \* messages in the order of their first insertion in the queue
    unhandled,        \* a promise nobody awaits was rejected
    lastFault,        \* the error raised or caught in the latest step, if any
    atClose,          \* the messages in the queue when close() was first called
    sopen,            \* sessions opened by the sender and not closed by it
    pipeClosedTwice,  \* the latest step called close() on a pipe that the
                      \* sender had closed before
    \* ---- createGenericReceiver closure
    receiver,             \* 0 = null, else the attempt that created the pipe
    creatingNow,          \* BOOLEAN
    healthCheckerTimerId, \* 0 = null, 1 = interval handle
    creating,             \* per attempt: the call its creator waits for
    nextAttempt,          \* the next attempt
    rsessions,            \* per attempt: state of the session it opened
    rfaults,              \* faults the environment may still inject
    rclosed,              \* close() has been called on the receiver
    lastTick,             \* what the latest health-check tick did
    \* ---- deliveries to the receiver
    rlog,                 \* the emits and acks of onMessage, in order
    nextDelivery,         \* the next message the broker delivers
    \* ---- setupChannel closure of each receiver session
    listeners,            \* per attempt: the event listeners registered
    closing,              \* per attempt: close events the broker client has
                          \* still to emit after close()
    calledAfterClose,     \* the failure callback ran for a session after its close()
    sessionClosedTwice,   \* close() ran again on a session the receiver had closed
    \* ---- doCreateExchangeReceiver
    binds,                \* per attempt: the bindQueue calls nobody awaits
    runhandled            \* a promise of the receiver nobody awaits was rejected

config == <<isDurable, targetKind, brokerUrl>>
svars == <<isDurable, targetKind, brokerUrl, outputQueue, retryTimerId, sender,
           inflight, nextMsg, result, closed, declPending, broker, intervals,
           buffered, unhandled, lastFault, atClose, sopen,
           pipeClosedTwice>>
dvars == <<rlog, nextDelivery>>
lvars == <<listeners, closing, calledAfterClose, sessionClosedTwice>>
bvars == <<binds, runhandled>>
rvars == <<receiver, creatingNow, healthCheckerTimerId, creating, nextAttempt,
           rsessions, rfaults, rclosed, lastTick, dvars, lvars, bvars>>
vars == <<svars, rvars>>

Range(s) == {s[i] : i \in 1..Len(s)}

\* No attempt waiting on the broker.
Idle == [kind |-> "none", pc |-> "none"]

\* The latest step raised and caught no error.
NoFault == [msg |-> 0, kind |-> "none"]

SenderInit ==
    /\ isDurable \in BOOLEAN
    /\ targetKind \in {"queue", "exchange"}
    /\ brokerUrl \in {"", "amqp"}
    /\ outputQueue = <<>>
    /\ retryTimerId = 0
    /\ sender = "null"
    /\ inflight = [m \in Msgs |-> Idle]
    /\ nextMsg = 1
    /\ result = [m \in Msgs |-> "none"]
    /\ closed = FALSE
    /\ declPending = 0
    /\ broker = <<>>
    /\ intervals = 0
    /\ buffered = <<>>
    /\ unhandled = FALSE
    /\ lastFault = NoFault
    /\ atClose = {}
    /\ sopen = 0
    /\ pipeClosedTwice = FALSE

\* createGenericReceiver, part_002 110-162: the constructor starts the health
\* checker.
ReceiverInit ==
    /\ receiver = 0
    /\ creatingNow = FALSE
    /\ healthCheckerTimerId = 1
    /\ creating = [a \in Attempts |-> "none"]
    /\ nextAttempt = 1
    /\ rsessions = [a \in Attempts |-> "none"]
    /\ rfaults = MaxFaults
    /\ rclosed = FALSE
    /\ rlog = <<>>
    /\ nextDelivery = 1
    /\ listeners = [a \in Attempts |-> {}]
    /\ closing = [a \in Attempts |-> {}]
    /\ calledAfterClose = FALSE
    /\ sessionClosedTwice = FALSE
    /\ binds = [a \in Attempts |-> "none"]
    /\ runhandled = FALSE
    /\ lastTick = "none"

\* A setupChannel that does not test the URL.
UrlMissing_Unchecked == FALSE

\* The test setupChannel makes before it connects, consoleProxy.ts 75-79: it
\* throws when the URL is missing.
UrlMissing == brokerUrl = ""

(***************************************************************************)
(* The sender: createGenericSender and GenericSender (src/src/mq/send.ts). *)
(***************************************************************************)

\* isQueueFull, send.ts 153-155.
isQueueFull == Len(outputQueue) > MAX_OUTSTANDING_MESSAGES

\* The saving condition without the durability test.
ShouldSave_IgnoresDurable == ~isQueueFull

\* The condition under which a failed direct send is saved, send.ts 174.
ShouldSave == isDurable /\ ~isQueueFull

\* startRetryTimer, send.ts 132-140.
startRetryTimer ==
    IF retryTimerId # 0
    THEN UNCHANGED <<retryTimerId, intervals>>
    ELSE retryTimerId' = 1 /\ intervals' = intervals + 1

\* stopRetryTimer, send.ts 142-151.
stopRetryTimer ==
    IF retryTimerId = 0
    THEN UNCHANGED <<retryTimerId, intervals>>
    ELSE retryTimerId' = 0 /\ intervals' = intervals - 1

\* channel.sendToQueue / channel.publish on the cached pipe (send.ts 37-42,
\* 56-59): the broker client throws when the channel is no longer open.
PipeSendOk == sender = "open"

\* send.ts 173-181: the direct delivery of m failed.
SaveOrDiscard(m) ==
    IF ShouldSave
    THEN /\ outputQueue' = Append(outputQueue, m)
         /\ buffered' = Append(buffered, m)
         /\ result' = [result EXCEPT ![m] = "buffered"]
         /\ startRetryTimer
    ELSE /\ result' = [result EXCEPT ![m] = "discarded"]
         /\ UNCHANGED <<outputQueue, buffered, retryTimerId, intervals>>

\* send.ts 75-82 after pipeCreator resolved with a new pipe, and the caller's
\* continuation: send.ts 169-171 for a direct send; for a retry tick the rest
\* of the loop of send.ts 115-126, which publishes every queued message on the
\* pipe just cached and stops the timer.
PipeReady(m) ==
    /\ sender' = "open"
    /\ inflight' = [inflight EXCEPT ![m] = Idle]
    /\ lastFault' = NoFault
    /\ IF inflight[m].kind = "send"
       THEN /\ broker' = Append(broker, m)
            /\ result' = [result EXCEPT ![m] = "sent"]
            /\ UNCHANGED <<outputQueue, retryTimerId, intervals>>
       ELSE /\ broker' = broker \o <<m>> \o outputQueue
            /\ outputQueue' = <<>>
            /\ stopRetryTimer
            /\ UNCHANGED result
    /\ UNCHANGED buffered

\* A failure path that loses the message of a failed resend instead of
\* putting it back.
AttemptFailed_DropsMessage(m, why) ==
    /\ sender' = "null"
    /\ declPending' = 0
    /\ inflight' = [inflight EXCEPT ![m] = Idle]
    /\ lastFault' = [msg |-> m, kind |-> why]
    /\ IF inflight[m].kind = "send"
       THEN SaveOrDiscard(m)
       ELSE UNCHANGED <<outputQueue, result, buffered, retryTimerId, intervals>>
    /\ UNCHANGED broker

\* send.ts 83-95 (pipeCreator rejected: the cached pipe is set absent, false is
\* returned) and the caller's continuation: send.ts 173-181 for a direct send,
\* send.ts 119-122 for a retry tick (the message goes back to the front).
AttemptFailed(m, why) ==
    /\ sender' = "null"
    /\ declPending' = 0
    /\ inflight' = [inflight EXCEPT ![m] = Idle]
    /\ lastFault' = [msg |-> m, kind |-> why]
    /\ IF inflight[m].kind = "send"
       THEN SaveOrDiscard(m)
       ELSE /\ outputQueue' = <<m>> \o outputQueue
            /\ UNCHANGED <<result, buffered, retryTimerId, intervals>>
    /\ UNCHANGED broker

\* send(content), send.ts 157-182, up to its first wait on the broker.
Send ==
    /\ nextMsg <= MaxMsgs
    /\ nextMsg' = nextMsg + 1
    /\ LET m == nextMsg IN
       IF Len(outputQueue) > 0
       THEN /\ IF isQueueFull
               THEN /\ result' = [result EXCEPT ![m] = "rejected"]
                    /\ lastFault' = [msg |-> m, kind |-> "capacity"]
                    /\ UNCHANGED <<outputQueue, buffered>>
               ELSE /\ outputQueue' = Append(outputQueue, m)
                    /\ buffered' = Append(buffered, m)
                    /\ result' = [result EXCEPT ![m] = "buffered"]
                    /\ lastFault' = NoFault
            /\ UNCHANGED <<sender, declPending, inflight, broker, retryTimerId,
                           intervals>>
       ELSE IF sender # "null"
       THEN IF PipeSendOk
            THEN /\ broker' = Append(broker, m)
                 /\ result' = [result EXCEPT ![m] = "sent"]
                 /\ lastFault' = NoFault
                 /\ UNCHANGED <<sender, declPending, inflight, outputQueue,
                                buffered, retryTimerId, intervals>>
            ELSE /\ sender' = "null"
                 /\ declPending' = 0
                 /\ lastFault' = [msg |-> m, kind |-> "publish"]
                 /\ SaveOrDiscard(m)
                 /\ UNCHANGED <<inflight, broker>>
       ELSE IF UrlMissing
            THEN /\ lastFault' = [msg |-> m, kind |-> "url"]
                 /\ SaveOrDiscard(m)
                 /\ UNCHANGED <<sender, declPending, inflight, broker>>
            ELSE /\ inflight' = [inflight EXCEPT
                     ![m] = [kind |-> "send", pc |-> "connect"]]
                 /\ result' = [result EXCEPT ![m] = "pending"]
                 /\ lastFault' = NoFault
                 /\ UNCHANGED <<sender, declPending, broker, outputQueue,
                                buffered, retryTimerId, intervals>>
    /\ UNCHANGED <<config, closed, unhandled>>
    /\ pipeClosedTwice' = FALSE
    /\ UNCHANGED <<atClose, sopen, rvars>>

\* retrySend, send.ts 112-127, fired by the interval of send.ts 139, up to its
\* first wait on the broker.
RetryTick ==
    /\ retryTimerId # 0
    /\ IF Len(outputQueue) = 0
       THEN /\ stopRetryTimer
            /\ lastFault' = NoFault
            /\ UNCHANGED <<outputQueue, sender, declPending, inflight, broker>>
       ELSE LET m == Head(outputQueue) IN
            IF sender # "null"
            THEN IF PipeSendOk
                 THEN /\ broker' = broker \o outputQueue
                      /\ outputQueue' = <<>>
                      /\ stopRetryTimer
                      /\ lastFault' = NoFault
                      /\ UNCHANGED <<sender, declPending, inflight>>
                 ELSE /\ sender' = "null"
                      /\ declPending' = 0
                      /\ lastFault' = [msg |-> m, kind |-> "publish"]
                      /\ UNCHANGED <<outputQueue, inflight, broker,
                                     retryTimerId, intervals>>
            ELSE IF UrlMissing
                 THEN /\ lastFault' = [msg |-> m, kind |-> "url"]
                      /\ UNCHANGED <<sender, declPending, outputQueue, inflight,
                                     broker, retryTimerId, intervals>>
                 ELSE /\ outputQueue' = Tail(outputQueue)
                      /\ inflight' = [inflight EXCEPT
                          ![m] = [kind |-> "retry", pc |-> "connect"]]
                      /\ lastFault' = NoFault
                      /\ UNCHANGED <<sender, declPending, broker, retryTimerId,
                                     intervals>>
    /\ UNCHANGED <<config, nextMsg, result, closed, buffered, unhandled>>
    /\ pipeClosedTwice' = FALSE
    /\ UNCHANGED <<atClose, sopen, rvars>>

\* The number of sessions after setupChannel opened one more
\* (consoleProxy.ts 83-84).  The count distinguishes none, one, and more than
\* one.
Opened(n) == IF n < 2 THEN n + 1 ELSE n

\* setupChannel (consoleProxy.ts 71-120) called by the pipe creator of the
\* attempt for m resolves or rejects (send.ts 33, 52).  For a queue target the
\* creator then waits for assertQueue (send.ts 35); for an exchange target
\* assertExchange is issued without being awaited (send.ts 54) and the pipe is
\* returned at once.
SetupChannelDone(m) ==
    /\ inflight[m].pc = "connect"
    /\ \/ /\ targetKind = "queue"
          /\ sopen' = Opened(sopen)
          /\ inflight' = [inflight EXCEPT ![m].pc = "declare"]
          /\ lastFault' = NoFault
          /\ UNCHANGED <<sender, declPending, broker, outputQueue, result,
                         buffered, retryTimerId, intervals>>
       \/ /\ targetKind = "exchange"
          /\ sopen' = Opened(sopen)
          /\ declPending' = m
          /\ PipeReady(m)
       \/ /\ AttemptFailed(m, "connect")
          /\ UNCHANGED sopen
    /\ UNCHANGED <<config, nextMsg, closed, unhandled>>
    /\ pipeClosedTwice' = FALSE
    /\ UNCHANGED <<atClose, rvars>>

\* channel.assertQueue awaited by createQueuePipe (send.ts 35) resolves or
\* rejects (the declaration is refused, or the new channel or connection
\* failed meanwhile).
AssertQueueDone(m) ==
    /\ inflight[m].pc = "declare"
    /\ \/ PipeReady(m) /\ declPending' = 0
       \/ AttemptFailed(m, "declare")
    /\ UNCHANGED <<config, nextMsg, closed, unhandled>>
    /\ pipeClosedTwice' = FALSE
    /\ UNCHANGED <<atClose, sopen, rvars>>

\* The reply to the assertExchange that createExchangePipe does not await
\* (send.ts 54).  Its rejection is outside the try block of send.ts 73-93; a
\* refused declaration closes the channel.
AssertExchangeReply ==
    /\ declPending # 0
    /\ declPending' = 0
    /\ \/ /\ sender = "open"
          /\ lastFault' = NoFault
          /\ UNCHANGED <<sender, unhandled>>
       \/ /\ sender' = IF sender = "open" THEN "failed" ELSE sender
          /\ unhandled' = TRUE
          /\ lastFault' = [msg |-> declPending, kind |-> "declareReply"]
    /\ UNCHANGED <<config, outputQueue, retryTimerId, inflight, nextMsg, result,
                   closed, broker, intervals, buffered>>
    /\ pipeClosedTwice' = FALSE
    /\ UNCHANGED <<atClose, sopen, rvars>>

\* A connection/channel error or close event on the session of the cached
\* pipe.  The sender passes no callback to setupChannel (send.ts 33, 52), so
\* callCallback (consoleProxy.ts 86-91) only logs.
SessionFail ==
    /\ sender = "open"
    /\ sender' = "failed"
    /\ lastFault' = NoFault
    /\ UNCHANGED <<config, outputQueue, retryTimerId, inflight, nextMsg, result,
                   closed, declPending, broker, intervals, buffered, unhandled>>
    /\ pipeClosedTwice' = FALSE
    /\ UNCHANGED <<atClose, sopen, rvars>>

\* close(), send.ts 186-192, with GenericSender.close, send.ts 98-100, and the
\* close of setupChannel, consoleProxy.ts 110-117.
Close ==
    /\ closed' = TRUE
    /\ atClose' = IF closed THEN atClose ELSE Range(outputQueue)
    /\ stopRetryTimer
    /\ sender' = IF sender = "null" THEN "null" ELSE "closed"
    /\ sopen' = IF sender \in {"open", "failed"} /\ sopen > 0
                THEN sopen - 1 ELSE sopen
    /\ pipeClosedTwice' = (sender = "closed")
    /\ lastFault' = NoFault
    /\ UNCHANGED <<config, outputQueue, inflight, nextMsg, result, declPending,
                   broker, buffered, unhandled>>
    /\ UNCHANGED rvars

SenderNext ==
    \/ Send
    \/ RetryTick
    \/ \E m \in Msgs : SetupChannelDone(m)
    \/ \E m \in Msgs : AssertQueueDone(m)
    \/ AssertExchangeReply
    \/ SessionFail
    \/ Close

(***************************************************************************)
(* The receiver: createGenericReceiver with doCreateQueueReceiver and      *)
(* doCreateExchangeReceiver (src/unnamed/part_002).                        *)
(***************************************************************************)

\* The listeners setupChannel registers, consoleProxy.ts 105-108.
Listeners == {"connection.error", "connection.close", "channel.error",
              "channel.close"}

\* The attempts whose creator call has not resolved yet.
InFlight == {a \in Attempts : creating[a] \notin {"none", "done", "failed"}}

\* The guard of healthChecker without the reentrancy flag.
HealthCheckerSkips_NoFlag == receiver # 0

\* The guard of healthChecker without the test of the pipe reference.
HealthCheckerSkips_NoReceiver == creatingNow

\* The guard of healthChecker, part_002 119-121.
HealthCheckerSkips == receiver # 0 \/ creatingNow

\* The rejection of the creator handled without the finally clause.
CreatorFailed_NoFinally(a) ==
    /\ creating' = [creating EXCEPT ![a] = "failed"]
    /\ receiver' = 0
    /\ UNCHANGED creatingNow

\* part_002 127-132: the creator of attempt a rejected.
CreatorFailed(a) ==
    /\ creating' = [creating EXCEPT ![a] = "failed"]
    /\ receiver' = 0
    /\ creatingNow' = FALSE

\* The call the creator waits for after the one named by pc:
\* doCreateQueueReceiver, part_002 25-46; doCreateExchangeReceiver, 63-96.
NextCall(pc) ==
    CASE pc = "setupChannel" ->
             IF targetKind = "queue" THEN "assertQueue" ELSE "assertExchange"
      [] pc = "assertExchange" -> "assertQueue"
      [] pc = "assertQueue" -> "consume"
      [] OTHER -> "done"

\* healthChecker, part_002 118-133, fired by the interval of part_002 144, up to
\* its wait on the broker.  setupChannel throws at once when the URL is
\* missing (consoleProxy.ts 75-79).
HealthCheckerTick ==
    /\ healthCheckerTimerId # 0
    /\ IF HealthCheckerSkips
       THEN /\ lastTick' = IF creatingNow THEN "skipCreating" ELSE "skipConnected"
            /\ UNCHANGED <<receiver, creatingNow, creating, nextAttempt>>
       ELSE /\ nextAttempt <= MaxAttempts
            /\ nextAttempt' = nextAttempt + 1
            /\ lastTick' = "attempt"
            /\ IF UrlMissing
               THEN /\ creating' = [creating EXCEPT ![nextAttempt] = "failed"]
                    /\ receiver' = 0
                    /\ creatingNow' = FALSE
               ELSE /\ creating' = [creating EXCEPT ![nextAttempt] = "setupChannel"]
                    /\ creatingNow' = TRUE
                    /\ UNCHANGED receiver
    /\ UNCHANGED <<healthCheckerTimerId, rsessions, rfaults, rclosed>>
    /\ UNCHANGED <<svars, dvars, lvars, bvars>>

\* setupChannel of attempt a resolves (the session is open and its four
\* listeners are registered, consoleProxy.ts 83-108) or rejects.
RSetupChannelDone(a) ==
    /\ creating[a] = "setupChannel"
    /\ \/ /\ rsessions' = [rsessions EXCEPT ![a] = "open"]
          /\ listeners' = [listeners EXCEPT ![a] = Listeners]
          /\ creating' = [creating EXCEPT ![a] = NextCall("setupChannel")]
          /\ UNCHANGED <<receiver, creatingNow, rfaults>>
       \/ /\ rfaults > 0
          /\ rfaults' = rfaults - 1
          /\ CreatorFailed(a)
          /\ UNCHANGED <<rsessions, listeners>>
    /\ UNCHANGED <<healthCheckerTimerId, nextAttempt, rclosed, lastTick>>
    /\ UNCHANGED <<svars, dvars, closing, calledAfterClose, sessionClosedTwice,
                   bvars>>

\* A declaration or the consume call awaited by the creator of attempt a
\* resolves or rejects (part_002 30, 44, 68, 76, 94).  A refused call closes the
\* channel, whose close event calls onChannelError (part_002 147-150); a call
\* on a session that failed meanwhile rejects.  When consume resolves the
\* creator returns the pipe (part_002 126).  For an exchange target the
\* continuation of assertQueue issues the bindQueue calls without awaiting
\* them (forEach over an async function, part_002 78-80) and then consume; the
\* broker client sends the calls of a channel one at a time, so the reply to
\* consume comes after the replies to the bindings.
RCallDone(a) ==
    /\ creating[a] \in {"assertExchange", "assertQueue", "consume"}
    /\ creating[a] = "consume" => binds[a] # "pending"
    /\ \/ /\ rsessions[a] = "open"
          /\ creating' = [creating EXCEPT ![a] = NextCall(creating[a])]
          /\ IF NextCall(creating[a]) = "done"
             THEN receiver' = a /\ creatingNow' = FALSE
             ELSE UNCHANGED <<receiver, creatingNow>>
          /\ binds' = IF targetKind = "exchange" /\ creating[a] = "assertQueue"
                      THEN [binds EXCEPT ![a] = "pending"]
                      ELSE binds
          /\ UNCHANGED <<rsessions, rfaults>>
       \/ /\ rsessions[a] = "open"
          /\ rfaults > 0
          /\ rfaults' = rfaults - 1
          /\ rsessions' = [rsessions EXCEPT ![a] = "failed"]
          /\ CreatorFailed(a)
          /\ UNCHANGED binds
       \/ /\ rsessions[a] # "open"
          /\ CreatorFailed(a)
          /\ UNCHANGED <<rsessions, rfaults, binds>>
    /\ UNCHANGED <<healthCheckerTimerId, nextAttempt, rclosed, lastTick>>
    /\ UNCHANGED <<svars, dvars, lvars, runhandled>>

\* The replies to the bindQueue calls of attempt a (part_002 78-80).  A
\* refused binding closes the channel, whose events call onChannelError
\* (part_002 147-150); on a channel that failed meanwhile the calls reject.
\* The rejected promise belongs to the async function forEach called and
\* dropped: it is outside the try block of healthChecker (part_002 123-132).
BindReply(a) ==
    /\ binds[a] = "pending"
    /\ \/ /\ rsessions[a] = "open"
          /\ binds' = [binds EXCEPT ![a] = "bound"]
          /\ UNCHANGED <<rsessions, rfaults, receiver, runhandled>>
       \/ /\ rsessions[a] = "open"
          /\ rfaults > 0
          /\ rfaults' = rfaults - 1
          /\ rsessions' = [rsessions EXCEPT ![a] = "failed"]
          /\ receiver' = 0
          /\ binds' = [binds EXCEPT ![a] = "refused"]
          /\ runhandled' = TRUE
       \/ /\ rsessions[a] # "open"
          /\ binds' = [binds EXCEPT ![a] = "refused"]
          /\ runhandled' = TRUE
          /\ UNCHANGED <<rsessions, rfaults, receiver>>
    /\ UNCHANGED <<creatingNow, healthCheckerTimerId, creating, nextAttempt,
                   rclosed, lastTick>>
    /\ UNCHANGED <<svars, dvars, lvars>>

\* A failure signal whose handler only logs and keeps the pipe reference.
ChannelError_KeepsPipe(a) ==
    /\ rsessions[a] = "open"
    /\ rfaults > 0
    /\ rfaults' = rfaults - 1
    /\ rsessions' = [rsessions EXCEPT ![a] = "failed"]
    /\ UNCHANGED <<receiver, creatingNow, healthCheckerTimerId, creating,
                   nextAttempt, rclosed, lastTick>>
    /\ UNCHANGED <<svars, dvars, lvars, bvars>>

\* A connection/channel error or close event on the open session of attempt a:
\* callCallback (consoleProxy.ts 86-91) calls onChannelError, part_002 147-150.
ChannelError(a) ==
    /\ rsessions[a] = "open"
    /\ listeners[a] # {}
    /\ rfaults > 0
    /\ rfaults' = rfaults - 1
    /\ rsessions' = [rsessions EXCEPT ![a] = "failed"]
    /\ receiver' = 0
    /\ UNCHANGED <<creatingNow, healthCheckerTimerId, creating, nextAttempt,
                   rclosed, lastTick>>
    /\ UNCHANGED <<svars, dvars, lvars, bvars>>

\* The listeners left by a close that forgets channel.off("close", ...).
AfterOff_KeepsChannelClose(ls) == ls \cap {"channel.close"}

\* The four off calls of close, consoleProxy.ts 111-114: the listeners left.
AfterOff(ls) == ls \ Listeners

\* The connection of the session of attempt a is lost after its channel had
\* failed.  Nothing closed that connection or removed its listeners
\* (consoleProxy.ts 105-106), so its error/close event runs callCallback
\* (consoleProxy.ts 86-91) and onChannelError (part_002 147-150).
ConnectionLost(a) ==
    /\ rsessions[a] = "failed"
    /\ listeners[a] # {}
    /\ rfaults > 0
    /\ rfaults' = rfaults - 1
    /\ rsessions' = [rsessions EXCEPT ![a] = "gone"]
    /\ receiver' = 0
    /\ UNCHANGED <<creatingNow, healthCheckerTimerId, creating, nextAttempt,
                   rclosed, lastTick>>
    /\ UNCHANGED <<svars, dvars, lvars, bvars>>

\* doClose, part_002 152-160, with the close of setupChannel,
\* consoleProxy.ts 110-117: the listeners are removed, then channel.close()
\* and connection.close() are called, each of which makes the broker client
\* emit a close event later.
doClose ==
    /\ healthCheckerTimerId' = 0
    /\ rclosed' = TRUE
    /\ IF receiver # 0
       THEN /\ rsessions' = [rsessions EXCEPT ![receiver] = "closed"]
            /\ listeners' = [listeners EXCEPT ![receiver] = AfterOff(@)]
            /\ closing' = [closing EXCEPT ![receiver] =
                               IF rsessions[receiver] = "open"
                               THEN {"channel.close", "connection.close"}
                               ELSE @]
       ELSE UNCHANGED <<rsessions, listeners, closing>>
    /\ sessionClosedTwice' =
           (sessionClosedTwice \/ (receiver # 0 /\ rsessions[receiver] = "closed"))
    /\ UNCHANGED <<receiver, creatingNow, creating, nextAttempt, rfaults, lastTick>>
    /\ UNCHANGED <<svars, dvars, calledAfterClose, bvars>>

\* The channel or the connection of the session of attempt a emits the close
\* event that follows its close() call.  A listener still registered for it
\* runs callCallback (consoleProxy.ts 86-91), which calls onChannelError
\* (part_002 147-150).
CloseEvent(a) ==
    /\ \E e \in closing[a] :
          /\ closing' = [closing EXCEPT ![a] = @ \ {e}]
          /\ IF e \in listeners[a]
             THEN receiver' = 0 /\ calledAfterClose' = TRUE
             ELSE UNCHANGED <<receiver, calledAfterClose>>
    /\ UNCHANGED <<creatingNow, healthCheckerTimerId, creating, nextAttempt,
                   rsessions, rfaults, rclosed, lastTick, listeners,
                   sessionClosedTwice>>
    /\ UNCHANGED <<svars, dvars, bvars>>


\* The body of onMessage with the acknowledgement sent first.
onMessage_AckFirst(log, d, a, throws) ==
    log \o <<[op |-> "ack", d |-> d, s |-> a], [op |-> "emit", d |-> d, s |-> a]>>

\* onMessage of createGenericReceiver, part_002 111-114, for delivery d on the
\* session of attempt a: emitter.emit calls the subscribers synchronously, and
\* an error a subscriber raises leaves emit, so that m.ack() is not reached.
onMessage(log, d, a, throws) ==
    IF throws
    THEN Append(log, [op |-> "emit", d |-> d, s |-> a])
    ELSE log \o <<[op |-> "emit", d |-> d, s |-> a], [op |-> "ack", d |-> d, s |-> a]>>

\* The deliveries on the session of attempt a that are not acknowledged.
Unacked(a) ==
    {d \in 1..MaxDeliveries :
        /\ \E i \in 1..Len(rlog) : rlog[i] = [op |-> "emit", d |-> d, s |-> a]
        /\ ~\E i \in 1..Len(rlog) : rlog[i] = [op |-> "ack", d |-> d, s |-> a]}

\* The broker delivers a message to the consumer registered by the creator of
\* attempt a (part_002 35-46, 85-96); the consume callback calls onMessage
\* with the content and the ack closure.  With prefetch(1) (part_002 32, 82)
\* the broker delivers nothing on a channel that holds an unacknowledged
\* message.  A subscriber of the event stream may raise an error.
Deliver(a) ==
    /\ creating[a] = "done"
    /\ rsessions[a] = "open"
    /\ Unacked(a) = {}
    /\ nextDelivery <= MaxDeliveries
    /\ nextDelivery' = nextDelivery + 1
    /\ \E throws \in BOOLEAN : rlog' = onMessage(rlog, nextDelivery, a, throws)
    /\ UNCHANGED <<receiver, creatingNow, healthCheckerTimerId, creating,
                   nextAttempt, rsessions, rfaults, rclosed, lastTick>>
    /\ UNCHANGED <<svars, lvars, bvars>>

ReceiverNext ==
    \/ \E a \in Attempts : Deliver(a)
    \/ HealthCheckerTick
    \/ \E a \in Attempts : RSetupChannelDone(a)
    \/ \E a \in Attempts : RCallDone(a)
    \/ \E a \in Attempts : BindReply(a)
    \/ \E a \in Attempts : ChannelError(a)
    \/ \E a \in Attempts : ConnectionLost(a)
    \/ doClose
    \/ \E a \in Attempts : CloseEvent(a)

Init == SenderInit /\ ReceiverInit
Next == SenderNext
Spec == Init /\ [][Next]_vars
RecvSpec == Init /\ [][ReceiverNext]_vars

\* A process that uses one of the two components: the sender and the receiver
\* share no state (each owns its sessions), so a behaviour exercises one of
\* them and leaves the other as constructed.
SenderFresh == nextMsg = 1 /\ ~closed
ReceiverFresh == nextAttempt = 1 /\ ~rclosed
EitherNext ==
    \/ ReceiverFresh /\ SenderNext
    \/ SenderFresh /\ ReceiverNext
EitherSpec == Init /\ [][EitherNext]_vars

\* The receiver under the scheduling of its environment: the interval of
\* part_002 144 keeps firing healthChecker until close clears it, and the
\* broker client settles every call it was given (connect, declare, consume),
\* with success or with failure.  The environment injects at most MaxFaults
\* faults, and every attempt that fails consumes one of them, so that the
\* MaxAttempts attempts of the model are enough when MaxAttempts > MaxFaults.
FairRecvSpec ==
    /\ RecvSpec
    /\ WF_vars(HealthCheckerTick)
    /\ WF_vars(\E a \in Attempts : RSetupChannelDone(a))
    /\ WF_vars(\E a \in Attempts : RCallDone(a))
    /\ WF_vars(\E a \in Attempts : BindReply(a))

TypeOK ==
    /\ outputQueue \in Seq(Msgs)
    /\ retryTimerId \in {0, 1}
    /\ sender \in {"null", "open", "failed", "closed"}
    /\ receiver \in {0} \cup Attempts
    /\ creatingNow \in BOOLEAN

(***************************************************************************)
(* Properties of the sender.                                               *)
(***************************************************************************)

\* The attempts of retry ticks that wait on the broker.
RetryInFlight == {m \in Msgs : inflight[m].kind = "retry"}
\* The position of message m in sequence q (0 when absent).
Pos(q, m) == IF m \in Range(q)
             THEN CHOOSE i \in 1..Len(q) : q[i] = m /\ \A j \in 1..(i - 1) : q[j] # m
             ELSE 0
NoDuplicates(q) == \A i, j \in 1..Len(q) : q[i] = q[j] => i = j
Increasing(q) == \A i, j \in 1..Len(q) : i < j => q[i] < q[j]

\* C1: in every reachable state the length of the outbound queue is at most
\* the configured maximum.
C1_QueueWithinMaximum == Len(outputQueue) <= MAX_OUTSTANDING_MESSAGES

\* C2: a send call made while the queue of a durable-target sender holds
\* exactly the maximum number of messages is rejected with the discard error
\* and leaves the queue length unchanged.
C2_SendAtCapacityRejected ==
    [][(/\ isDurable
        /\ Len(outputQueue) = MAX_OUTSTANDING_MESSAGES
        /\ nextMsg' = nextMsg + 1)
       => (/\ result'[nextMsg] = "rejected"
           /\ Len(outputQueue') = Len(outputQueue))]_vars

\* No delivery attempt has failed so far: every send call made was delivered
\* directly or still waits on the broker, and no declaration was refused.
NoFailureSoFar ==
    /\ \A m \in Msgs : result[m] \in {"none", "pending", "sent"}
    /\ ~unhandled

\* C3: if no delivery attempt ever fails, the messages handed to the broker
\* are the messages of the send calls in the order of the calls, also when
\* send is called again before an earlier call has completed.
C3_BrokerOrderIsCallOrder ==
    NoFailureSoFar =>
        /\ Increasing(broker)
        /\ (\A m \in Msgs : inflight[m] = Idle) =>
               broker = [i \in 1..(nextMsg - 1) |-> i]

\* C4: a message buffered after a failed delivery is handed to the broker
\* exactly once, never skipped, and in its original relative order among the
\* buffered messages, under any interleaving of retry ticks.
C4_BufferedOnceInOrder ==
    /\ NoDuplicates(broker)
    /\ \A i, j \in 1..Len(broker) :
           (i < j /\ broker[i] \in Range(buffered) /\ broker[j] \in Range(buffered))
               => Pos(buffered, broker[i]) < Pos(buffered, broker[j])
    /\ (outputQueue = <<>> /\ RetryInFlight = {}) =>
           Range(buffered) \subseteq Range(broker)

\* Message m is pending: still in the buffer, or taken out of it by a retry
\* tick whose delivery attempt is in flight.
Pending(m) == m \in Range(outputQueue) \/ m \in RetryInFlight

\* C5: a message is never handed to the broker before a message that was
\* accepted earlier and is still pending.
C5_NoOvertaking ==
    [][\A m \in Msgs :
          (m \notin Range(broker) /\ m \in Range(broker')) =>
              \A e \in 1..(m - 1) :
                  Pending(e) =>
                      /\ e \in Range(broker')
                      /\ Pos(broker', e) < Pos(broker', m)]_vars

\* C6: for a target that does not request durability the outbound queue is
\* empty and the retry timer is not running in every reachable state, and no
\* send call raises an error: a failed delivery ends in the message being
\* discarded.
C6_NonDurableNeverBuffers ==
    ~isDurable =>
        /\ outputQueue = <<>>
        /\ retryTimerId = 0
        /\ intervals = 0
        /\ \A m \in Msgs : result[m] \in {"none", "pending", "sent", "discarded"}
        /\ lastFault.kind \in {"url", "connect", "declare", "publish"} =>
               result[lastFault.msg] = "discarded"

\* A delivery to a non-durable target failed at the broker and the message
\* was discarded.
C6_Witness ==
    /\ ~isDurable
    /\ brokerUrl # ""
    /\ lastFault.kind \in {"connect", "declare", "publish"}
    /\ result[lastFault.msg] = "discarded"

\* C7: send raises an error only in the capacity case (the queue is non-empty
\* and over the maximum when send is called); a missing URL, a connect
\* failure, a declaration failure and a publish failure are caught: the cached
\* pipe is absent afterwards and the message is buffered or discarded.
C7_OnlyCapacityErrorPropagates ==
    /\ \A m \in Msgs :
           result[m] = "rejected" /\ lastFault.msg = m =>
               lastFault.kind = "capacity" /\ isQueueFull
    /\ lastFault.kind \in {"url", "connect", "declare", "declareReply", "publish"} =>
           /\ sender = "null"
           /\ ~unhandled
           /\ \/ lastFault.msg \in Range(outputQueue)
              \/ result[lastFault.msg] = "discarded"

\* C8: for a durable target whose sender is not closed, no message is left
\* in the queue with no retry scheduled: when no delivery attempt is in
\* flight and the queue is not empty, the retry timer is running.
C8_NoStrandedMessage ==
    (/\ isDurable
     /\ ~closed
     /\ outputQueue # <<>>
     /\ \A m \in Msgs : inflight[m] = Idle)
        => retryTimerId # 0

\* C9: at most one resend of a buffered message is in flight at any time.
C9_OneResendInFlight == Cardinality(RetryInFlight) <= 1

(***************************************************************************)
(* Properties of the receiver.                                             *)
(***************************************************************************)

\* C10: at most one connection attempt of the receiver is in flight at any
\* time: a health-check tick that fires while an attempt has not resolved
\* starts no new attempt.
C10_OneAttemptInFlight == Cardinality(InFlight) <= 1

\* A health-check tick fired while an attempt was in flight.
C10_Witness ==
    /\ lastTick = "skipCreating"
    /\ Cardinality(InFlight) = 1

\* The attempts whose creator returned a pipe (part_002 126).
Established == {a \in Attempts : creating[a] = "done"}

\* C11: when the first attempts fail because the broker is unreachable and a
\* later one succeeds, with no failure signal on any session, the receiver
\* establishes exactly one connection: a tick that fires while the receiver
\* is connected or connecting changes nothing.
C11_OneEstablishment ==
    /\ []((\A a \in Attempts : rsessions[a] \notin {"failed", "gone"})
            => Cardinality(Established) <= 1)
    /\ [][(HealthCheckerTick /\ (receiver # 0 \/ InFlight # {}))
            => UNCHANGED <<receiver, creatingNow, creating, nextAttempt,
                           rsessions>>]_vars

\* Two attempts failed, the third one established the connection, and a
\* later tick found the receiver connected.
C11_Witness ==
    /\ creating[1] = "failed"
    /\ creating[2] = "failed"
    /\ receiver = 3
    /\ rsessions[3] = "open"
    /\ lastTick = "skipConnected"
    /\ Cardinality(Established) = 1

\* C12: a failure signal on the session of the live pipe clears the pipe
\* reference, and a tick that fires while the receiver is disconnected with no
\* attempt in flight starts an attempt on a session that was never opened
\* before; the pipe an attempt returns owns the session that attempt opened.
C12_FailureSignalReconnects ==
    [][/\ \A a \in Attempts :
              (receiver = a /\ rsessions[a] = "open" /\ rsessions'[a] = "failed")
                  => receiver' = 0
       /\ (HealthCheckerTick /\ receiver = 0 /\ InFlight = {} /\ brokerUrl # "")
              => /\ creating[nextAttempt] = "none"
                 /\ rsessions[nextAttempt] = "none"
                 /\ creating'[nextAttempt] = "setupChannel"
       /\ \A a \in Attempts :
              (receiver # a /\ receiver' = a)
                  => rsessions'[a] = "open" /\ creating[a] = "consume"]_vars

\* The session of the first pipe failed and a later attempt established a
\* pipe on a session of its own.
C12_Witness ==
    /\ creating[1] = "done"
    /\ rsessions[1] = "failed"
    /\ receiver = 2
    /\ rsessions[2] = "open"

\* C13: after a connection/channel error or close on the session of the
\* sender's cached pipe, the next delivery attempt (a direct send or a retry
\* tick) does not publish on the failed session: it starts the creation of a
\* new pipe (connect, then declare) for the message it delivers.
C13_SenderLeavesFailedSession ==
    [][(/\ sender = "failed"
        /\ \/ Send /\ outputQueue = <<>>
           \/ RetryTick /\ outputQueue # <<>>)
       => /\ lastFault'.kind # "publish"
          /\ \E m \in Msgs : inflight[m] = Idle /\ inflight'[m].pc = "connect"]_vars

\* The positions in the log of the events and of the acknowledgements of
\* delivery d.
Emits(d) == {i \in 1..Len(rlog) : rlog[i].op = "emit" /\ rlog[i].d = d}
Acks(d) == {i \in 1..Len(rlog) : rlog[i].op = "ack" /\ rlog[i].d = d}
Delivered == 1..(nextDelivery - 1)

\* C14 as stated: for every message the broker delivers, the acknowledgement
\* to the broker happens before the payload is forwarded to the subscribers.
C14_AckBeforeForward ==
    \A d \in Delivered :
        \A i \in Emits(d) : \E j \in Acks(d) : j < i

\* C14 as amended: for every message the broker delivers, the payload is
\* forwarded to the subscribers before the acknowledgement is sent: an
\* acknowledged delivery has been forwarded earlier.
C14_ForwardBeforeAck ==
    \A d \in Delivered :
        \A j \in Acks(d) : \E i \in Emits(d) : i < j

\* A delivery was forwarded and acknowledged.
C14_Witness ==
    \E d \in Delivered : Emits(d) # {} /\ Acks(d) # {}

\* C15: every delivery causes exactly one event and exactly one
\* acknowledgement, whatever the subscribers do with the payload.
C15_OneEventOneAck ==
    \A d \in Delivered :
        Cardinality(Emits(d)) = 1 /\ Cardinality(Acks(d)) = 1

\* The receiver holds a pipe whose session is open.
Connected == receiver # 0 /\ rsessions[receiver] = "open"

\* C16: with a valid URL and no close, once the broker stays reachable and no
\* further failure signal fires, the ticks alone bring the receiver to
\* Connected, and it stays Connected.
C16_EventuallyConnected ==
    <>[](brokerUrl = "" \/ rclosed \/ Connected)

\* The environment has injected all its faults and the receiver is connected.
C16_Witness ==
    /\ rfaults = 0
    /\ ~rclosed
    /\ Connected
    /\ lastTick = "skipConnected"

\* C17: after close() of the sender has returned the retry timer is stopped
\* and stays stopped, and no message that was in the queue when close() was
\* called is handed to the broker, also when a send or a retry tick was in
\* flight at that time.  Stated for the steps that are not new send calls of
\* the user: none of them starts the timer or hands such a message over.
C17_ClosedSenderStaysQuiet ==
    [][(closed /\ nextMsg' = nextMsg)
       => /\ retryTimerId' = 0
          /\ intervals' = 0
          /\ atClose \cap Range(broker') = {}]_vars

\* C18: after close() of a session its failure callback is never invoked
\* again, also not for the close events that closing the channel and the
\* connection causes: the four listeners are removed before the channel and
\* the connection are closed.
C18_NoCallbackAfterClose ==
    /\ ~calledAfterClose
    /\ \A a \in Attempts : rsessions[a] = "closed" => listeners[a] = {}

\* A session was closed and both its close events have been emitted.
C18_Witness ==
    \E a \in Attempts :
        /\ rsessions[a] = "closed"
        /\ closing[a] = {}
        /\ ~calledAfterClose

\* C19: with a missing broker URL opening a session fails before any
\* connection attempt, so that no connection or channel is allocated, and the
\* failure is confined to the attempt: the receiver stays disconnected with no
\* attempt in flight and every tick tries again; the sender counts a failed
\* delivery, whose message is buffered or discarded.
C19_MissingUrlFailsEarly ==
    brokerUrl = "" =>
        /\ \A a \in Attempts :
               /\ rsessions[a] = "none"
               /\ listeners[a] = {}
               /\ creating[a] \in {"none", "failed"}
        /\ receiver = 0
        /\ ~creatingNow
        /\ lastTick \in {"none", "attempt"}
        /\ ~rclosed => healthCheckerTimerId # 0
        /\ sender = "null"
        /\ declPending = 0
        /\ broker = <<>>
        /\ \A m \in Msgs :
               /\ inflight[m] = Idle
               /\ result[m] \in {"none", "buffered", "discarded", "rejected"}
        /\ lastFault.kind \in {"none", "url", "capacity"}
        /\ lastFault.kind = "url" =>
               \/ lastFault.msg \in Range(outputQueue)
               \/ result[lastFault.msg] = "discarded"

\* With a missing URL two attempts of the receiver have failed, one tick
\* after the other.
C19_Witness ==
    /\ brokerUrl = ""
    /\ creating[1] = "failed"
    /\ creating[2] = "failed"
    /\ nextAttempt = 3
    /\ receiver = 0
    /\ healthCheckerTimerId # 0

\* C20: whenever no delivery attempt of the sender is in flight and close()
\* has not been called, the queue is non-empty exactly when the retry timer is
\* running; at most one retry timer exists at any time.
C20_BufferingIffTimer ==
    /\ intervals <= 1
    /\ ((\A m \in Msgs : inflight[m] = Idle) /\ ~closed)
           => (outputQueue # <<>> <=> retryTimerId # 0)

\* The sessions the receiver opened and has not closed.
ROpen == {a \in Attempts : rsessions[a] \in {"open", "failed"}}

\* C21: a sender and a receiver have at most one session that was opened and
\* not yet closed by the component: a session the component discards is
\* closed.
C21_OneOpenSession ==
    /\ sopen <= 1
    /\ Cardinality(ROpen) <= 1

\* The sessions on which a consumer of the receiver is registered.
Consuming == {a \in Attempts : creating[a] = "done" /\ rsessions[a] = "open"}

\* C22: a failure signal of a session the receiver has discarded never clears
\* the reference to a newer live pipe: the reference to a pipe whose session
\* is open is cleared only by a failure of that session, and no two sessions
\* of the receiver consume at the same time.
C22_StaleSignalIgnored ==
    /\ [](Cardinality(Consuming) <= 1)
    /\ [][(receiver # 0 /\ rsessions[receiver] = "open" /\ receiver' = 0)
            => rsessions'[receiver] # "open"]_vars

\* C23: in every reachable state the outbound queue holds at most one message
\* beyond the configured maximum, under any interleaving of send calls, failed
\* direct sends, retry ticks and messages put back after a failed resend.
C23_QueueWithinMaximumPlusOne ==
    Len(outputQueue) <= MAX_OUTSTANDING_MESSAGES + 1

\* C24: for an exchange target the receiver becomes connected and consumes
\* only after its routing keys are bound to its queue; when a binding fails,
\* the failure is the attempt's: the creator rejects, healthChecker handles
\* the error, the receiver stays disconnected and a later tick tries again.
C24_BoundBeforeConsuming ==
    /\ \A a \in Attempts :
           (targetKind = "exchange" /\ creating[a] = "done") => binds[a] = "bound"
    /\ \A a \in Attempts :
           binds[a] = "refused" =>
               /\ creating[a] \in {"consume", "failed"}
               /\ receiver # a
    /\ ~runhandled

\* Sequence q without its first k elements.
Drop(q, k) == SubSeq(q, k + 1, Len(q))

\* C25: a retry tick attempts the buffered messages oldest first and stops at
\* the first failure, putting the failed message back at the front.  Stated
\* for the steps of a tick (its start and the completion of its attempt) that
\* are not send calls: the messages handed to the broker are a prefix of the
\* queue, the queue afterwards is the rest, and a tick whose first attempt
\* fails leaves the queue as it was with the retry timer running.
C25_RetryTickFrame ==
    [][nextMsg' = nextMsg =>
        /\ (RetryTick /\ outputQueue # <<>>) =>
              \/ /\ lastFault'.kind \in {"publish", "url"}
                 /\ outputQueue' = outputQueue
                 /\ broker' = broker
                 /\ retryTimerId' # 0
              \/ /\ lastFault'.kind = "none"
                 /\ inflight'[Head(outputQueue)].kind = "retry"
                 /\ outputQueue' = Tail(outputQueue)
                 /\ broker' = broker
              \/ /\ lastFault'.kind = "none"
                 /\ \E k \in 1..Len(outputQueue) :
                       /\ broker' = broker \o SubSeq(outputQueue, 1, k)
                       /\ outputQueue' = Drop(outputQueue, k)
        /\ \A m \in Msgs :
              (inflight[m].kind = "retry" /\ inflight'[m] = Idle) =>
                  \/ /\ outputQueue' = <<m>> \o outputQueue
                     /\ broker' = broker
                     /\ retryTimerId' # 0
                  \/ \E k \in 0..Len(outputQueue) :
                        /\ broker' = broker \o <<m>> \o SubSeq(outputQueue, 1, k)
                        /\ outputQueue' = Drop(outputQueue, k)]_vars

\* The number of places of the sequence q that hold m.
Times(q, m) == Cardinality({i \in 1..Len(q) : q[i] = m})

\* The call of send for m has come to its end and no resend of m is awaited.
Ended(m) == m < nextMsg /\ inflight[m] = Idle

\* C26: while the sender is open, every message passed to send ends in exactly
\* one of: handed to the broker once, held in the queue, discarded, rejected
\* with the capacity error; no message is both at the broker and in the queue;
\* and a buffered message leaves the queue only into a resend of it, which
\* either hands it to the broker or puts it back.
C26_ExactlyOneOutcome ==
    /\ [](~closed =>
           \A m \in Msgs : Ended(m) =>
              /\ Times(broker, m) + Times(outputQueue, m)
                   + (IF result[m] \in {"discarded", "rejected"} THEN 1 ELSE 0) = 1
              /\ result[m] = "sent" => Times(broker, m) = 1
              /\ result[m] = "buffered" => Times(buffered, m) = 1)
    /\ [][(~closed /\ ~closed') =>
           \A m \in Msgs :
              /\ (Times(outputQueue, m) > 0 /\ Times(outputQueue', m) = 0) =>
                    \/ inflight'[m].kind = "retry"
                    \/ Times(broker', m) = Times(broker, m) + 1
              /\ (inflight[m].kind = "retry" /\ inflight'[m] = Idle) =>
                    \/ Times(broker', m) = Times(broker, m) + 1
                    \/ Head(outputQueue') = m]_vars

\* C26 witness: the sender is open, one message was buffered and later handed
\* to the broker by a resend, and another message is held in the queue.
C26_Witness ==
    /\ ~closed
    /\ \E m1, m2 \in Msgs :
          /\ Ended(m1) /\ Ended(m2)
          /\ result[m1] = "buffered" /\ Times(broker, m1) = 1
          /\ result[m2] = "buffered" /\ Times(outputQueue, m2) = 1

\* C27: after close() of the receiver no new connection attempt is started,
\* and once the attempts in flight at the time of the close have resolved,
\* the receiver holds no open session and emits no further events.
C27_ClosedReceiverStaysQuiet ==
    /\ [][rclosed => nextAttempt' = nextAttempt]_vars
    /\ []((rclosed /\ InFlight = {}) => ~Connected)
    /\ [][(rclosed /\ InFlight = {}) => rlog' = rlog]_vars

\* C28: neither the sender nor the receiver calls close() twice on the same
\* session, whatever the sequence of public calls, close() called more than
\* once included.
C28_NoDoubleClose == ~pipeClosedTwice /\ ~sessionClosedTwice

====
